---- MODULE Spec2Model ----
(***************************************************************************)
(* Job scheduler of the Canary STT backend (backend/main.py): the job      *)
(* registry `jobs`, the HTTP handlers that read and write it, and the      *)
(* background task process_transcription that every successful start       *)
(* creates on the asyncio event loop.                                      *)
(*                                                                         *)
(* Handlers are coroutines that reach no await between reading and writing *)
(* the registry, so each handler is one atomic step.  A task created by    *)
(* asyncio.create_task does not run inside the handler that created it: it *)
(* is "scheduled" until the event loop runs it, and other handlers may run *)
(* in between.                                                             *)
(***************************************************************************)
EXTENDS Integers, Sequences, FiniteSets, TLC

\* Number of uploads accepted in one run (uuid4 identifiers 1..MaxJobs).
MaxJobs == 2
\* Number of direct calls of a service's transcribe_audio in one run.
MaxCalls == 2
\* Largest torch.cuda.device_count() of an enumerated host.
MaxGpus == 2
\* Job identifiers hash to -MaxHash..MaxHash.
MaxHash == 2
\* Number of times the allocator is asked about one job identifier.
MaxPicks == 2
\* Largest os.cpu_count() of a host.
MaxCpus == 4
\* Largest available system memory of a host, in blocks of 16 GB.
MaxMemoryBlocks == 5

VARIABLES
    jobs,         \* main.py:36      registry: job id -> job record
    issued,       \* main.py:92      how many uuid4 job ids were generated
    uploads,      \* main.py:93-98   files under UPLOAD_DIR: job id -> content
    task,         \* main.py:144     state of the job's process_transcription task
    spawned,      \* main.py:144     how many tasks create_task made for the job
    gpu_devices,  \* hardware_config.py:27   enumerated devices (GPUInfo.index)
    resp,         \* the response of the latest handler call
    model,        \* self.model of each service object ("None" until a load)
    load_log,     \* per loader: how often it was attempted and how often it failed
    calls,        \* the calls of a service's transcribe_audio coroutine
    disk,         \* intermediate files of the normalizer that exist on disk
    picked,       \* what get_device_for_job returned, per job id, call by call
    is_available, \* hardware_config.py:19  GPUInfo.is_available of each device
    cpu_count,    \* hardware_config.py:28  os.cpu_count() or 1
    available_system_memory_gb,  \* hardware_config.py:26, in whole GB
    executor      \* main.py:20  the worker pool, None until the line has run

\* The scheduler's state (main.py, hardware_config.py).
job_vars == <<jobs, issued, uploads, task, spawned, gpu_devices, resp>>
\* The state of the transcription services and of their files.
svc_vars == <<model, load_log, calls, disk>>
\* The record of the device allocator's answers.
\* The host the hardware optimizer measured, and the worker pool made from it.
host_vars == <<cpu_count, available_system_memory_gb, executor>>
\* The record of the device allocator's answers, and the host.
dev_vars == <<picked, is_available, cpu_count, available_system_memory_gb, executor>>
vars == <<jobs, issued, uploads, task, spawned, gpu_devices, resp,
         model, load_log, calls, disk, picked, is_available,
         cpu_count, available_system_memory_gb, executor>>

\* Identifier 0 is a well-formed identifier that upload never generates.
JobIds == 1..MaxJobs
ProbeIds == 0..MaxJobs

\* Optional values: None is the empty sequence, a set value is <<v>>.
None == <<>>
Some(v) == <<v>>
IsSet(o) == o # None

\* main.py:92 and hardware_config.py:303-304: job_id is a fresh uuid4 string
\* and hash(job_id) is fixed for the process.  The job record keeps, next to
\* the identifier, what get_device_for_job reads of that hash: its residue
\* modulo the number of devices (Python's % is non-negative for a positive
\* modulus), and 0 where the hash is not read (fewer than two devices).
HashResidues(devices) ==
    IF Len(devices) > 1 THEN 0..(Len(devices) - 1) ELSE {0}

\* main.py:30-34
PENDING == "pending"
PROCESSING == "processing"
COMPLETED == "completed"
FAILED == "failed"
JobStatus == {PENDING, PROCESSING, COMPLETED, FAILED}

\* main.py:55-64 (two of the eight supported suffixes)
SUPPORTED_FORMATS == {".wav", ".m4a"}
\* Suffixes a client may send: supported, unsupported, and "" for a name
\* without a dot.
Suffixes == {".wav", ".txt", ""}

\* A format check that accepts every extension (contrast for C11).
is_supported_any_format(ext) == ext \in Suffixes

\* main.py:70-75
is_supported_audio_format(ext) == ext \in SUPPORTED_FORMATS


\* hardware_config.py:293-304  (-1 means "run on the CPU")
get_device_for_job(devices, h) ==
    IF Len(devices) = 0 THEN -1
    ELSE IF Len(devices) = 1 THEN 0
    ELSE h % Len(devices)

\* transcription_service.py:224: the parameters, besides self, of the method
\* that main.py:261 imports.
TranscribeAudioParams == {"audio_path"}
\* main.py:276: the keyword arguments of the call.
TranscribeCallKeywords == {"job_id"}
\* The binding if the service method declared job_id, as the methods of
\* canary_transcription.py:98 do.
BindTranscribeCallAccepted == "bound"

\* Python binds the arguments when the coroutine function is called, before
\* its body runs: a keyword the method does not declare raises TypeError in
\* the caller.
BindTranscribeCall ==
    IF TranscribeCallKeywords \subseteq TranscribeAudioParams
    THEN "bound"
    ELSE "TypeError"

\* str(e) of that TypeError.
TypeErrorMessage == "transcribe_audio() got an unexpected keyword argument 'job_id'"

\* transcription_service.py:235-237: the messages raised when preprocessing
\* returned no path.
PreprocessError(ext) ==
    IF ext = ".m4a" THEN "M4A format is not supported without FFmpeg"
    ELSE "Audio preprocessing failed"

\* transcription_service.py:246-253: a failure inside the service is returned
\* as a payload with an "error" entry, not raised.
ErrorResult(msg) ==
    [transcription |-> "", error |-> Some(msg), confidence |-> 0,
     duration |-> 0, model |-> None]

\* transcription_service.py:284-289 and 314-319: a payload without an error.
TextResult(name, conf) ==
    [transcription |-> "text", error |-> None, confidence |-> conf,
     duration |-> 1, model |-> Some(name)]

\* transcription_service.py:224-253: what a bound call can return for a file.
\* preprocess_audio (84-222) returns no path for a missing or undecodable
\* file; otherwise the real model (271-289) or the mock (295-328) answers.
ServiceResults(present, readable, ext) ==
    IF ~present \/ ~readable
    THEN {ErrorResult(PreprocessError(ext))}
    ELSE {TextResult("nvidia/canary-qwen-2.5b", 95),
          TextResult("mock-canary-qwen-2.5b", 85)}

\* The three service modules of backend/, each with one global instance
\* (transcription_service.py:331, canary_transcription.py:212,
\* whisper_transcription.py:140).
Services == {"transcription_service", "canary_transcription", "whisper_transcription"}

\* The loaders a load_model can try: SALM.from_pretrained
\* (transcription_service.py:37), AutoModel.from_pretrained (:68),
\* AutoModelForSpeechSeq2Seq.from_pretrained (canary_transcription.py:57),
\* pipeline (:82), whisper.load_model (whisper_transcription.py:47).
Loaders == {"SALM", "AutoModel", "AutoModelForSpeechSeq2Seq", "pipeline", "whisper"}

\* The loaders of one service, in the order its load_model tries them.
LoaderOrder(svc) ==
    IF svc = "transcription_service" THEN <<"SALM", "AutoModel">>
    ELSE IF svc = "canary_transcription" THEN <<"AutoModelForSpeechSeq2Seq", "pipeline">>
    ELSE <<"whisper">>

CallIds == 1..MaxCalls

\* A transcribe_audio call before its first statement ran.
IdleCall ==
    [pc |-> "idle", svc |-> "", ext |-> "", load |-> << >>, tried |-> << >>,
     empty |-> FALSE, invoked |-> << >>, result |-> None, cleanups |-> 0]

\* The services after import: self.model = None (transcription_service.py:17,
\* canary_transcription.py:20, whisper_transcription.py:17), nothing loaded,
\* no call made, no intermediate file.
ServiceStart ==
    /\ model = [svc \in Services |-> "None"]
    /\ load_log = [l \in Loaders |-> [attempts |-> 0, failures |-> 0]]
    /\ calls = << >>
    /\ disk = {}

\* hardware_config.py:43-67  detect_gpus: the ordinals 0..gpu_count-1 in
\* order, without those whose get_device_properties raised (64-65).
detect_gpus(gpu_count, failing) ==
    SelectSeq([i \in 1..gpu_count |-> i - 1], LAMBDA index : index \notin failing)

\* The inventories a host with at most MaxGpus CUDA devices can enumerate.
Inventories ==
    {detect_gpus(gpu_count, failing) :
        gpu_count \in 0..MaxGpus, failing \in SUBSET (0..(MaxGpus - 1))}

\* The job identifiers the allocator is asked about: None (the default of
\* the parameter, hardware_config.py:293) or an identifier, given by its hash.
DeviceJobIds == {None} \cup {Some(h) : h \in (0 - MaxHash)..MaxHash}

\* hardware_config.py:303  job_hash = hash(job_id) if job_id else 0
job_hash(job_id) == IF IsSet(job_id) THEN job_id[1] ELSE 0

\* min and max of Python, on the argument lists of hardware_config.py:285-289.
min(values) == CHOOSE v \in values : \A w \in values : v <= w
max(values) == CHOOSE v \in values : \A w \in values : v >= w

\* hardware_config.py:282-291  get_optimal_workers.  int(x / 16) of a
\* non-negative x is the quotient rounded down.
get_optimal_workers(cpus, memory_gb, devices) ==
    LET cpu_based == min({8, cpus \div 2})
        memory_based == max({4, memory_gb \div 16})
        gpu_based == Len(devices) * 4
    IN  min({cpu_based, memory_based, gpu_based})

\* concurrent.futures.ThreadPoolExecutor.__init__: max_workers <= 0 raises
\* ValueError("max_workers must be greater than 0") and no pool exists.
ThreadPoolExecutor(max_workers) ==
    [max_workers |-> max_workers, raised |-> max_workers <= 0]

\* The amounts of available memory of a host, in GB.
MemoriesGb == {16 * blocks : blocks \in 0..MaxMemoryBlocks}

\* No handler reads the worker pool (main.py:20 is the only occurrence of
\* executor), so the specifications of the scheduler, the services and the
\* allocator hold the host's CPU count and memory at one value and do not
\* follow the pool.
HostStart ==
    /\ cpu_count = 1
    /\ available_system_memory_gb = 0
    /\ executor = None

\* The allocator after import: it has not been asked, and every enumerated
\* GPUInfo has the default of its field, is_available = True
\* (hardware_config.py:19, 54-60).
DeviceStart ==
    /\ picked = << >>
    /\ is_available = [i \in DOMAIN gpu_devices |-> TRUE]
    /\ HostStart

\* The state after the module is imported: main.py:36 (empty registry),
\* hardware_config.py:27 (the inventory, enumerated once).
Init ==
    /\ jobs = << >>
    /\ issued = 0
    /\ uploads = << >>
    /\ task = [j \in JobIds |-> "none"]
    /\ spawned = [j \in JobIds |-> 0]
    /\ gpu_devices \in {<< >>, <<0>>, <<0, 1>>}
    /\ resp = [op |-> "none", id |-> 0, code |-> 0]
    /\ ServiceStart
    /\ DeviceStart

\* Function f without key k (del f[k]).
Without(f, k) == [x \in (DOMAIN f) \ {k} |-> f[x]]
\* Function f with key k set to v (f[k] = v, inserting k when new).
With(f, k, v) == [x \in (DOMAIN f) \cup {k} |-> IF x = k THEN v ELSE f[x]]

\* main.py:77-130  POST /upload
upload_audio(ext, size, readable) ==
    /\ UNCHANGED <<svc_vars, dev_vars>>
    /\ UNCHANGED <<task, spawned, gpu_devices>>
    /\ IF ext = ""
       THEN \* 80-81
            /\ resp' = [op |-> "upload", id |-> 0, code |-> 400]
            /\ UNCHANGED <<jobs, issued, uploads>>
       ELSE IF ~is_supported_audio_format(ext)
       THEN \* 84-90
            /\ resp' = [op |-> "upload", id |-> 0, code |-> 400]
            /\ UNCHANGED <<jobs, issued, uploads>>
       ELSE IF size = 0
       THEN \* 102-104 remove the file and raise 400 inside the try;
            \* 126-130 catch it as Exception and raise 500
            /\ resp' = [op |-> "upload", id |-> 0, code |-> 500]
            /\ UNCHANGED <<jobs, issued, uploads>>
       ELSE \* 92-124
            /\ issued < MaxJobs
            /\ LET job_id == issued + 1 IN
               /\ issued' = job_id
               /\ uploads' = With(uploads, job_id, [size |-> size, readable |-> readable])
               /\ \E h \in HashResidues(gpu_devices) :
                    jobs' = With(jobs, job_id,
                                 [id_hash |-> h, status |-> PENDING, ext |-> ext,
                                  file_size |-> size, result |-> None, error |-> None,
                                  progress |-> None, assigned_gpu |-> None,
                                  stages |-> << >>])
               /\ resp' = [op |-> "upload", id |-> job_id, code |-> 200,
                           status |-> PENDING]

\* transcribe_audio without the status check of lines 138-139.
transcribe_audio_unchecked(job_id) ==
    /\ UNCHANGED <<svc_vars, dev_vars>>
    /\ UNCHANGED <<issued, uploads, gpu_devices>>
    /\ IF job_id \notin DOMAIN jobs
       THEN /\ resp' = [op |-> "transcribe", id |-> job_id, code |-> 404]
            /\ UNCHANGED <<jobs, task, spawned>>
       ELSE /\ jobs' = [jobs EXCEPT ![job_id].status = PROCESSING]
            /\ task' = [task EXCEPT ![job_id] = "scheduled"]
            /\ spawned' = [spawned EXCEPT ![job_id] = @ + 1]
            /\ resp' = [op |-> "transcribe", id |-> job_id, code |-> 200,
                        status |-> PROCESSING]

\* transcribe_audio whose status check rejects only a job in progress.
transcribe_audio_retry_terminal(job_id) ==
    /\ UNCHANGED <<svc_vars, dev_vars>>
    /\ UNCHANGED <<issued, uploads, gpu_devices>>
    /\ IF job_id \notin DOMAIN jobs
       THEN /\ resp' = [op |-> "transcribe", id |-> job_id, code |-> 404]
            /\ UNCHANGED <<jobs, task, spawned>>
       ELSE IF jobs[job_id].status = PROCESSING
       THEN /\ resp' = [op |-> "transcribe", id |-> job_id, code |-> 400]
            /\ UNCHANGED <<jobs, task, spawned>>
       ELSE /\ jobs' = [jobs EXCEPT ![job_id].status = PROCESSING]
            /\ task' = [task EXCEPT ![job_id] = "scheduled"]
            /\ spawned' = [spawned EXCEPT ![job_id] = @ + 1]
            /\ resp' = [op |-> "transcribe", id |-> job_id, code |-> 200,
                        status |-> PROCESSING]

\* transcribe_audio without line 144: the status is written, no task is
\* created (contrast for C26).
transcribe_audio_without_task(job_id) ==
    /\ UNCHANGED <<svc_vars, dev_vars>>
    /\ UNCHANGED <<issued, uploads, gpu_devices>>
    /\ IF job_id \notin DOMAIN jobs
       THEN /\ resp' = [op |-> "transcribe", id |-> job_id, code |-> 404]
            /\ UNCHANGED <<jobs, task, spawned>>
       ELSE IF jobs[job_id].status # PENDING
       THEN /\ resp' = [op |-> "transcribe", id |-> job_id, code |-> 400]
            /\ UNCHANGED <<jobs, task, spawned>>
       ELSE /\ jobs' = [jobs EXCEPT ![job_id].status = PROCESSING]
            /\ UNCHANGED <<task, spawned>>
            /\ resp' = [op |-> "transcribe", id |-> job_id, code |-> 200,
                        status |-> PROCESSING]

\* main.py:132-146  POST /transcribe/{job_id}
transcribe_audio(job_id) ==
    /\ UNCHANGED <<svc_vars, dev_vars>>
    /\ UNCHANGED <<issued, uploads, gpu_devices>>
    /\ IF job_id \notin DOMAIN jobs
       THEN \* 134-135
            /\ resp' = [op |-> "transcribe", id |-> job_id, code |-> 404]
            /\ UNCHANGED <<jobs, task, spawned>>
       ELSE IF jobs[job_id].status # PENDING
       THEN \* 138-139
            /\ resp' = [op |-> "transcribe", id |-> job_id, code |-> 400]
            /\ UNCHANGED <<jobs, task, spawned>>
       ELSE \* 141-146
            /\ jobs' = [jobs EXCEPT ![job_id].status = PROCESSING]
            /\ task' = [task EXCEPT ![job_id] = "scheduled"]
            /\ spawned' = [spawned EXCEPT ![job_id] = @ + 1]
            /\ resp' = [op |-> "transcribe", id |-> job_id, code |-> 200,
                        status |-> PROCESSING]

\* get_job_status answering from what upload stored, whatever the job
\* has become since (contrast for C22).
get_job_status_stale(job_id) ==
    /\ UNCHANGED <<svc_vars, dev_vars>>
    /\ UNCHANGED <<jobs, issued, uploads, task, spawned, gpu_devices>>
    /\ IF job_id \notin DOMAIN jobs
       THEN resp' = [op |-> "status", id |-> job_id, code |-> 404]
       ELSE resp' = [op |-> "status", id |-> job_id, code |-> 200,
                     status |-> PENDING, progress |-> None]

\* main.py:148-165  GET /status/{job_id}
get_job_status(job_id) ==
    /\ UNCHANGED <<svc_vars, dev_vars>>
    /\ UNCHANGED <<jobs, issued, uploads, task, spawned, gpu_devices>>
    /\ IF job_id \notin DOMAIN jobs
       THEN resp' = [op |-> "status", id |-> job_id, code |-> 404]
       ELSE resp' = [op |-> "status", id |-> job_id, code |-> 200,
                     status |-> jobs[job_id].status,
                     progress |-> jobs[job_id].progress]

\* get_transcription_result reading the registry with a default record
\* (jobs.get) in place of the membership test of lines 169-170.
get_transcription_result_default(job_id) ==
    /\ UNCHANGED <<svc_vars, dev_vars>>
    /\ UNCHANGED <<jobs, issued, uploads, task, spawned, gpu_devices>>
    /\ IF job_id \notin DOMAIN jobs
       THEN resp' = [op |-> "result", id |-> job_id, code |-> 200,
                     status |-> PENDING,
                     message |-> "Transcription still in progress"]
       ELSE LET job == jobs[job_id] IN
            IF job.status = COMPLETED
            THEN resp' = [op |-> "result", id |-> job_id, code |-> 200,
                          status |-> job.status, result |-> job.result]
            ELSE IF job.status = FAILED
            THEN resp' = [op |-> "result", id |-> job_id, code |-> 200,
                          status |-> job.status, error |-> job.error]
            ELSE resp' = [op |-> "result", id |-> job_id, code |-> 200,
                          status |-> job.status,
                          message |-> "Transcription still in progress"]

\* get_transcription_result without the branch of lines 179-184: a failed
\* job is answered like one in progress (contrast for C23).
get_transcription_result_without_failed(job_id) ==
    /\ UNCHANGED <<svc_vars, dev_vars>>
    /\ UNCHANGED <<jobs, issued, uploads, task, spawned, gpu_devices>>
    /\ IF job_id \notin DOMAIN jobs
       THEN resp' = [op |-> "result", id |-> job_id, code |-> 404]
       ELSE LET job == jobs[job_id] IN
            IF job.status = COMPLETED
            THEN resp' = [op |-> "result", id |-> job_id, code |-> 200,
                          status |-> job.status, result |-> job.result]
            ELSE resp' = [op |-> "result", id |-> job_id, code |-> 200,
                          status |-> job.status,
                          message |-> "Transcription still in progress"]

\* main.py:167-191  GET /result/{job_id}
get_transcription_result(job_id) ==
    /\ UNCHANGED <<svc_vars, dev_vars>>
    /\ UNCHANGED <<jobs, issued, uploads, task, spawned, gpu_devices>>
    /\ IF job_id \notin DOMAIN jobs
       THEN resp' = [op |-> "result", id |-> job_id, code |-> 404]
       ELSE LET job == jobs[job_id] IN
            IF job.status = COMPLETED
            THEN resp' = [op |-> "result", id |-> job_id, code |-> 200,
                          status |-> job.status, result |-> job.result]
            ELSE IF job.status = FAILED
            THEN resp' = [op |-> "result", id |-> job_id, code |-> 200,
                          status |-> job.status, error |-> job.error]
            ELSE resp' = [op |-> "result", id |-> job_id, code |-> 200,
                          status |-> job.status,
                          message |-> "Transcription still in progress"]

\* A delete whose os.remove is not guarded by try/except: when removing the
\* file fails the exception leaves the handler before `del jobs[job_id]`
\* (contrast for C13).
delete_job_unguarded(job_id) ==
    /\ UNCHANGED <<svc_vars, dev_vars>>
    /\ UNCHANGED <<issued, task, spawned, gpu_devices>>
    /\ IF job_id \notin DOMAIN jobs
       THEN /\ resp' = [op |-> "delete", id |-> job_id, code |-> 404]
            /\ UNCHANGED <<jobs, uploads>>
       ELSE \E remove_ok \in BOOLEAN :
              IF job_id \in DOMAIN uploads /\ ~remove_ok
              THEN /\ resp' = [op |-> "delete", id |-> job_id, code |-> 500]
                   /\ UNCHANGED <<jobs, uploads>>
              ELSE /\ uploads' = Without(uploads, job_id)
                   /\ jobs' = Without(jobs, job_id)
                   /\ resp' = [op |-> "delete", id |-> job_id, code |-> 200]

\* delete_job emptying the registry (jobs.clear()) where line 255 removes
\* one entry (contrast for C34).
delete_job_clear(job_id) ==
    /\ UNCHANGED <<svc_vars, dev_vars>>
    /\ UNCHANGED <<issued, task, spawned, gpu_devices>>
    /\ IF job_id \notin DOMAIN jobs
       THEN /\ resp' = [op |-> "delete", id |-> job_id, code |-> 404]
            /\ UNCHANGED <<jobs, uploads>>
       ELSE /\ \E remove_ok \in BOOLEAN :
                 uploads' = IF job_id \in DOMAIN uploads /\ remove_ok
                            THEN Without(uploads, job_id)
                            ELSE uploads
            /\ jobs' = << >>
            /\ resp' = [op |-> "delete", id |-> job_id, code |-> 200]

\* main.py:241-256  DELETE /job/{job_id}.  os.remove may fail; the handler
\* swallows the exception (252-253) and removes the entry all the same.
delete_job(job_id) ==
    /\ UNCHANGED <<svc_vars, dev_vars>>
    /\ UNCHANGED <<issued, task, spawned, gpu_devices>>
    /\ IF job_id \notin DOMAIN jobs
       THEN /\ resp' = [op |-> "delete", id |-> job_id, code |-> 404]
            /\ UNCHANGED <<jobs, uploads>>
       ELSE /\ \E remove_ok \in BOOLEAN :
                 uploads' = IF job_id \in DOMAIN uploads /\ remove_ok
                            THEN Without(uploads, job_id)
                            ELSE uploads
            /\ jobs' = Without(jobs, job_id)
            /\ resp' = [op |-> "delete", id |-> job_id, code |-> 200]

\* main.py:267, 280, 285: `job["progress"] = {...}` binds a new dict; obj
\* numbers the dict objects the job has had, so that two references to the
\* same object can be told from two dicts with the same entries.
NewProgress(old, stage, percent, gpu) ==
    Some([obj |-> IF IsSet(old) THEN old[1].obj + 1 ELSE 1,
          stage |-> stage, percent |-> percent, gpu |-> gpu])

\* The handler without line 284: the status is written, the error is not.
FailJobNoError(reg, job_id, e) ==
    IF job_id \in DOMAIN reg
    THEN /\ jobs' = [reg EXCEPT ![job_id].status = FAILED,
                                ![job_id].progress =
                                    NewProgress(reg[job_id].progress, "failed", 0, None)]
         /\ task' = [task EXCEPT ![job_id] = "done"]
    ELSE /\ jobs' = reg
         /\ task' = [task EXCEPT ![job_id] = "raised"]

\* The handler without line 283: the error is written, the status is not.
FailJobNoStatus(reg, job_id, e) ==
    IF job_id \in DOMAIN reg
    THEN /\ jobs' = [reg EXCEPT ![job_id].error = Some(e),
                                ![job_id].progress =
                                    NewProgress(reg[job_id].progress, "failed", 0, None)]
         /\ task' = [task EXCEPT ![job_id] = "done"]
    ELSE /\ jobs' = reg
         /\ task' = [task EXCEPT ![job_id] = "raised"]

\* The handler writing a whole record under the identifier
\* (jobs[job_id] = {...}), which inserts the key when it is gone.
FailJobInsert(reg, job_id, e) ==
    /\ jobs' = With(reg, job_id,
                    [id_hash |-> 0, status |-> FAILED, ext |-> "", file_size |-> 0,
                     result |-> None, error |-> Some(e),
                     progress |-> NewProgress(None, "failed", 0, None),
                     assigned_gpu |-> None, stages |-> << >>])
    /\ task' = [task EXCEPT ![job_id] = "done"]

\* The handler leaving the percent of a finished job, 100, in the progress
\* of a failed one (contrast for C37).
FailJobPercent100(reg, job_id, e) ==
    IF job_id \in DOMAIN reg
    THEN /\ jobs' = [reg EXCEPT ![job_id].status = FAILED,
                                ![job_id].error = Some(e),
                                ![job_id].progress =
                                    NewProgress(reg[job_id].progress, "failed", 100, None)]
         /\ task' = [task EXCEPT ![job_id] = "done"]
    ELSE /\ jobs' = reg
         /\ task' = [task EXCEPT ![job_id] = "raised"]

\* main.py:282-285: the handler of "except Exception", run on registry reg.
\* It looks the job up in the registry again (jobs[job_id], not the local
\* job); for an identifier that is no longer there the lookup raises KeyError
\* inside the handler, and that exception leaves the task.
FailJob(reg, job_id, e) ==
    IF job_id \in DOMAIN reg
    THEN /\ jobs' = [reg EXCEPT ![job_id].status = FAILED,
                                ![job_id].error = Some(e),
                                ![job_id].progress =
                                    NewProgress(reg[job_id].progress, "failed", 0, None)]
         /\ task' = [task EXCEPT ![job_id] = "done"]
    ELSE /\ jobs' = reg
         /\ task' = [task EXCEPT ![job_id] = "raised"]

\* main.py:278-280: the writes after the service call returned result.
CompleteJob(reg, job_id, result) ==
    /\ jobs' = [reg EXCEPT ![job_id].result = Some(result),
                           ![job_id].status = COMPLETED,
                           ![job_id].progress =
                               NewProgress(reg[job_id].progress, "completed", 100, None)]
    /\ task' = [task EXCEPT ![job_id] = "done"]

\* The pipeline stages the service call ran for the job before it returned
\* result: preprocess_audio (transcription_service.py:231) and, when that
\* gave a path, the invocation of the model (240-244).
StagesOfCall(result) ==
    IF result.error = None THEN <<"normalize", "invoke">> ELSE <<"normalize">>

\* The registry after the awaited call of main.py:276 ran those stages.
RanService(reg, job_id, result) ==
    [reg EXCEPT ![job_id].stages = @ \o StagesOfCall(result)]

\* main.py:258-285: the background task.  From its first line to the call on
\* line 276 it reaches no await, and the call raises before the service
\* coroutine exists (BindTranscribeCall), so the task is one step of the
\* event loop.  `stages` lists the pipeline stages the task ran for the job,
\* in the order it ran them; the allocation is the call of line 270.
process_transcription(job_id) ==
    /\ UNCHANGED <<svc_vars, dev_vars>>
    /\ task[job_id] = "scheduled"
    /\ UNCHANGED <<issued, uploads, spawned, gpu_devices, resp>>
    /\ IF job_id \notin DOMAIN jobs
       THEN \* 263: KeyError, handled on 282
            FailJob(jobs, job_id, "KeyError")
       ELSE LET optimal_gpu == get_device_for_job(gpu_devices, jobs[job_id].id_hash)
                gpu == IF optimal_gpu >= 0 THEN Some(optimal_gpu) ELSE None
                \* 267-273
                reg == [jobs EXCEPT ![job_id].progress =
                                        NewProgress(jobs[job_id].progress,
                                                    "preprocessing", 10, gpu),
                                    ![job_id].assigned_gpu = gpu,
                                    ![job_id].stages = Append(@, "allocate")]
            IN  IF BindTranscribeCall = "TypeError"
                THEN \* 276 raises, handled on 282
                     FailJob(reg, job_id, TypeErrorMessage)
                ELSE \* 276-280
                     \E result \in ServiceResults(job_id \in DOMAIN uploads,
                                                  job_id \in DOMAIN uploads
                                                     /\ uploads[job_id].readable,
                                                  reg[job_id].ext) :
                        CompleteJob(RanService(reg, job_id, result), job_id, result)

Next ==
    \/ \E ext \in Suffixes, size \in 0..1, readable \in BOOLEAN :
          upload_audio(ext, size, readable)
    \/ \E job_id \in ProbeIds : transcribe_audio(job_id)
    \/ \E job_id \in ProbeIds : get_job_status(job_id)
    \/ \E job_id \in ProbeIds : get_transcription_result(job_id)
    \/ \E job_id \in ProbeIds : delete_job(job_id)
    \/ \E job_id \in JobIds : process_transcription(job_id)

Spec == Init /\ [][Next]_vars

\* The event loop runs every task that create_task scheduled.
FairSpec == Spec /\ \A job_id \in JobIds : WF_vars(process_transcription(job_id))


----------------------------------------------------------------------------
\* The transcription services, called directly as test_wav.py:21,
\* test_audio.py and test_hardware_migration.py:96 call them.  A coroutine
\* runs without interruption up to its first real suspension point:
\* asyncio.sleep (transcription_service.py:308) or run_in_executor
\* (canary_transcription.py:184, whisper_transcription.py:96).  load_model
\* and preprocess_audio are coroutines without one, so a call loads and
\* normalizes in the same step in which it starts.

\* The intermediate files of preprocess_audio for an audio path:
\* temp_wav (transcription_service.py:118) and output_path (:100).
TempWav == "_temp.wav"
ProcessedWav == "_processed.wav"

\* What the environment does to one run of preprocess_audio:
\*   exists   os.path.exists(audio_path)                            (91)
\*   librosa  librosa.load(audio_path) succeeds                     (106)
\*   pydub    "ImportError": pydub is not installed                 (121, 155)
\*            "error": AudioSegment or export raise, or no output   (128-153)
\*            "undecodable": exported, librosa.load(temp_wav) raises (149)
\*            "ok": exported and decoded                            (144-151)
\*   ffmpeg   "FileNotFoundError": no ffmpeg binary                 (174, 185)
\*            "timeout": subprocess.TimeoutExpired after 60 s       (174, 185)
\*            "failed": non-zero return code or no output           (176, 181)
\*            "undecodable": converted, librosa.load(temp_wav) raises (178)
\*            "ok": converted and decoded                           (176-180)
\*   partial  a failed or timed-out ffmpeg left an incomplete temp_wav
\*   empty    the decoded audio has no samples                      (189)
\*   write    sf.write creates output_path                          (200-203)
\* A field that the run never consults has its first value.
NormalizerEnvs ==
    {e \in [exists : BOOLEAN, librosa : BOOLEAN,
            pydub : {"unused", "ImportError", "error", "undecodable", "ok"},
            ffmpeg : {"unused", "FileNotFoundError", "timeout", "failed",
                      "undecodable", "ok"},
            partial : BOOLEAN, empty : BOOLEAN, write : BOOLEAN] :
       LET use_pydub == e.exists /\ ~e.librosa
           use_ffmpeg == use_pydub /\ e.pydub \in {"error", "undecodable"}
           decoded == \/ e.exists /\ e.librosa
                      \/ use_pydub /\ e.pydub = "ok"
                      \/ use_ffmpeg /\ e.ffmpeg = "ok"
       IN /\ e.librosa => e.exists
          /\ (e.pydub # "unused") <=> use_pydub
          /\ (e.ffmpeg # "unused") <=> use_ffmpeg
          /\ e.partial => e.ffmpeg \in {"timeout", "failed"}
          /\ e.empty => decoded
          /\ ~e.write => decoded /\ ~e.empty}

\* One decode strategy that preprocess_audio ran, and whether it produced
\* decoded audio: librosa.load of the file (105-110), the pydub conversion
\* (120-151), the ffmpeg subprocess (165-180).
Attempt(strategy, ok) == [strategy |-> strategy, ok |-> ok]

\* transcription_service.py:183, 187, 191, 209, 222: preprocess_audio returns
\* None; `tried` lists the strategies it ran, `temp` says whether temp_wav
\* is on disk when it returns, `empty` whether it refused decoded audio
\* for having no samples.
NoPath(tried, temp) ==
    [path |-> FALSE, tried |-> tried, temp |-> temp, empty |-> FALSE]

\* Saving whatever was decoded, without the test of lines 189-191
\* (contrast for C29).
SaveProcessedUnchecked(e, tried, temp) ==
    [path |-> e.write, tried |-> tried, temp |-> temp, empty |-> e.empty]

\* transcription_service.py:189-209: the decoded audio is refused when it is
\* empty, otherwise written to output_path, which is returned when it exists.
SaveProcessed(e, tried, temp) ==
    [path |-> ~e.empty /\ e.write, tried |-> tried, temp |-> temp,
     empty |-> e.empty]

\* transcription_service.py:163-187: the ffmpeg subprocess.  temp_wav is
\* removed only after a successful decode (179); the branches that return
\* None (183, 187) leave whatever ffmpeg wrote.
ffmpeg_fallback(e, tried) ==
    LET t == Append(tried, Attempt("ffmpeg", e.ffmpeg = "ok")) IN
    IF e.ffmpeg = "ok" THEN SaveProcessed(e, t, FALSE)
    ELSE IF e.ffmpeg = "undecodable" THEN NoPath(t, TRUE)
    ELSE IF e.ffmpeg \in {"timeout", "failed"} THEN NoPath(t, e.partial)
    ELSE NoPath(t, FALSE)

\* transcription_service.py:116-161: the pydub conversion.  Without pydub
\* the function returns None and ffmpeg is not tried (155-157); a failed
\* conversion or decode removes temp_wav (160-161) and goes on to ffmpeg.
pydub_conversion(e, tried, temp) ==
    LET t == Append(tried, Attempt("pydub", e.pydub = "ok")) IN
    IF e.pydub = "ImportError" THEN NoPath(t, temp)
    ELSE IF e.pydub = "ok" THEN SaveProcessed(e, t, FALSE)
    ELSE ffmpeg_fallback(e, t)

\* transcription_service.py:84-222  preprocess_audio; `temp` says whether a
\* temp_wav of an earlier run is on disk.
preprocess_audio(e, temp) ==
    IF ~e.exists THEN NoPath(<< >>, temp)
    ELSE IF e.librosa THEN SaveProcessed(e, <<Attempt("librosa", TRUE)>>, temp)
    ELSE pydub_conversion(e, <<Attempt("librosa", FALSE)>>, temp)

\* The files on disk after a run of preprocess_audio with outcome pre.
DiskAfter(d, pre) ==
    (d \ {TempWav}) \cup (IF pre.temp THEN {TempWav} ELSE {})
                    \cup (IF pre.path THEN {ProcessedWav} ELSE {})

\* One loader that ran, and whether it produced a model.
Loaded(loader, ok) == [loader |-> loader, ok |-> ok]

\* A load_model that assigns nothing to self.model (contrast for C15).
_load_model_alternative_unassigned(avail) ==
    [model |-> "None", load |-> <<Loaded("AutoModel", "AutoModel" \in avail)>>,
     ok |-> TRUE]

\* transcription_service.py:58-82  _load_model_alternative; avail is the set
\* of loaders that succeed now.  When AutoModel fails too, self.model
\* becomes "mock" (81), which cannot fail, and the function returns True.
_load_model_alternative(avail) ==
    IF "AutoModel" \in avail
    THEN [model |-> "AutoModel", load |-> <<Loaded("AutoModel", TRUE)>>, ok |-> TRUE]
    ELSE [model |-> "mock",
          load |-> <<Loaded("AutoModel", FALSE), Loaded("mock", TRUE)>>, ok |-> TRUE]

\* transcription_service.py:24-56  load_model
transcription_service_load_model(avail) ==
    IF "SALM" \in avail
    THEN [model |-> "SALM", load |-> <<Loaded("SALM", TRUE)>>, ok |-> TRUE]
    ELSE LET alt == _load_model_alternative(avail) IN
         [alt EXCEPT !.load = <<Loaded("SALM", FALSE)>> \o @]

\* canary_transcription.py:28-96  load_model: the pipeline is tried when
\* AutoModelForSpeechSeq2Seq fails (75-91); when both fail the function
\* returns False and self.model is still None (93-96).
canary_transcription_load_model(avail) ==
    IF "AutoModelForSpeechSeq2Seq" \in avail
    THEN [model |-> "AutoModelForSpeechSeq2Seq",
          load |-> <<Loaded("AutoModelForSpeechSeq2Seq", TRUE)>>, ok |-> TRUE]
    ELSE IF "pipeline" \in avail
    THEN [model |-> "pipeline",
          load |-> <<Loaded("AutoModelForSpeechSeq2Seq", FALSE),
                     Loaded("pipeline", TRUE)>>, ok |-> TRUE]
    ELSE [model |-> "None",
          load |-> <<Loaded("AutoModelForSpeechSeq2Seq", FALSE),
                     Loaded("pipeline", FALSE)>>, ok |-> FALSE]

\* whisper_transcription.py:23-57  load_model
whisper_transcription_load_model(avail) ==
    IF "whisper" \in avail
    THEN [model |-> "whisper", load |-> <<Loaded("whisper", TRUE)>>, ok |-> TRUE]
    ELSE [model |-> "None", load |-> <<Loaded("whisper", FALSE)>>, ok |-> FALSE]

\* `if self.model is None: ... await self.load_model()`
\* (transcription_service.py:227-228, canary_transcription.py:101-102,
\* whisper_transcription.py:62-63).
EnsureLoaded(svc, avail) ==
    IF model[svc] # "None"
    THEN [model |-> model[svc], load |-> << >>, ok |-> TRUE]
    ELSE IF svc = "transcription_service" THEN transcription_service_load_model(avail)
    ELSE IF svc = "canary_transcription" THEN canary_transcription_load_model(avail)
    ELSE whisper_transcription_load_model(avail)

\* The sets of loaders that may succeed when svc starts a call: a choice only
\* when the call has to load.
Availabilities(svc) ==
    IF model[svc] = "None"
    THEN SUBSET {LoaderOrder(svc)[i] : i \in 1..Len(LoaderOrder(svc))}
    ELSE {{}}

\* load_log after the loaders in `load` ran.
LogLoads(log, load) ==
    [l \in Loaders |->
       [attempts |-> log[l].attempts
                       + Cardinality({i \in 1..Len(load) : load[i].loader = l}),
        failures |-> log[l].failures
                       + Cardinality({i \in 1..Len(load) :
                                        load[i].loader = l /\ ~load[i].ok})]]

\* One model that was invoked for a call, and whether it answered.
Invoked(tier, ok) == [tier |-> tier, ok |-> ok]

\* transcription_service.py:288, canary_transcription.py:192
CanaryModelName == "nvidia/canary-qwen-2.5b"
\* transcription_service.py:318
MockModelName == "mock-canary-qwen-2.5b"
\* whisper_transcription.py:104: the class of the object whisper.load_model returns
WhisperModelName == "whisper-Whisper"
\* canary_transcription.py:204
CanaryFailedName == "canary-failed"

\* transcription_service.py:321-328: the payload of a failed _mock_transcription.
MockFailure(msg) ==
    [transcription |-> "Transcription failed", error |-> Some(msg),
     confidence |-> 0, duration |-> 0, model |-> None]

\* canary_transcription.py:197-205: the payload of a failed call.
CanaryFailure(msg) == [ErrorResult(msg) EXCEPT !.model = Some(CanaryFailedName)]

\* A mock that answers under the real model's name (contrast for C18).
_mock_transcription_unmarked(decodable) ==
    IF decodable
    THEN [invoked |-> <<Invoked("mock", TRUE)>>,
          result |-> Some(TextResult(CanaryModelName, 85)), suspends |-> TRUE]
    ELSE [invoked |-> <<Invoked("mock", FALSE)>>,
          result |-> Some(MockFailure("librosa.load failed")), suspends |-> FALSE]

\* transcription_service.py:295-328  _mock_transcription: librosa.load of the
\* processed file (299), then the asyncio.sleep loop (307-310), at which the
\* coroutine is suspended, then the payload (314-319).
_mock_transcription(decodable) ==
    IF decodable
    THEN [invoked |-> <<Invoked("mock", TRUE)>>,
          result |-> Some(TextResult(MockModelName, 85)), suspends |-> TRUE]
    ELSE [invoked |-> <<Invoked("mock", FALSE)>>,
          result |-> Some(MockFailure("librosa.load failed")), suspends |-> FALSE]

\* A _real_transcription that hands every call to the mock (contrast for C16).
_real_transcription_always_mock(tier, decodable, invoke_ok) ==
    LET m == _mock_transcription(decodable) IN
    [m EXCEPT !.invoked = <<Invoked(tier, decodable /\ invoke_ok)>> \o @]

\* transcription_service.py:271-293  _real_transcription with the loaded
\* model `tier`: librosa.load (275) and self.model.transcribe (282); any
\* exception hands the call to _mock_transcription (291-293).
_real_transcription(tier, decodable, invoke_ok) ==
    IF decodable /\ invoke_ok
    THEN [invoked |-> <<Invoked(tier, TRUE)>>,
          result |-> Some(TextResult(CanaryModelName, 95)), suspends |-> FALSE]
    ELSE LET m == _mock_transcription(decodable) IN
         [m EXCEPT !.invoked = <<Invoked(tier, FALSE)>> \o @]

\* jetson_config.py:35-69  optimize_for_jetson (the entry read here)
optimize_for_jetson == [clear_cache_after_inference |-> TRUE]
\* hardware_config.py:88-163  optimize_for_hardware (the entry read here)
optimize_for_hardware == [clear_cache_after_inference |-> FALSE]

\* self.config of a service object (transcription_service.py:19,
\* canary_transcription.py:23, whisper_transcription.py:19).
config(svc) ==
    IF svc = "transcription_service" THEN optimize_for_jetson
    ELSE optimize_for_hardware

\* A finally block that calls cleanup_memory whatever the configuration
\* says (contrast for C33).
cleanup_always(svc) == 1

\* The finally block of transcribe_audio (transcription_service.py:263-265,
\* canary_transcription.py:206-209, whisper_transcription.py:116-119): the
\* number of cleanup_memory passes it runs.
cleanup_after_inference(svc) ==
    IF config(svc).clear_cache_after_inference THEN 1 ELSE 0

\* Call c is the next call to be made: calls are numbered as they start,
\* and `calls` lists those that have started.
NextCall(c) == c = Len(calls) + 1

\* transcription_service.py:224-269  transcribe_audio up to its first
\* suspension: load (227-228), preprocess (231-237), invocation (240-244).
\* A call that is not suspended in the mock returns in the same step, after
\* the finally block removed its processed file (254-261).
transcription_service_transcribe_audio(c, ext) ==
    /\ UNCHANGED <<job_vars, dev_vars>>
    /\ NextCall(c)
    /\ \E avail \in Availabilities("transcription_service"), e \in NormalizerEnvs :
         LET svc == "transcription_service"
             ld == EnsureLoaded(svc, avail)
             pre == preprocess_audio(e, TempWav \in disk)
             d == DiskAfter(disk, pre)
             begun == [IdleCall EXCEPT !.svc = svc, !.ext = ext,
                                       !.load = ld.load, !.tried = pre.tried,
                                       !.empty = pre.empty]
         IN /\ model' = [model EXCEPT ![svc] = ld.model]
            /\ load_log' = LogLoads(load_log, ld.load)
            /\ IF ~pre.path
               THEN \* 232-237, 246-253
                    /\ calls' = Append(calls,
                                   [begun EXCEPT !.pc = "returned",
                                      !.cleanups = cleanup_after_inference(svc),
                                      !.result = Some(ErrorResult(PreprocessError(ext)))])
                    /\ disk' = d
               ELSE \E decodable \in BOOLEAN,
                       invoke_ok \in (IF ld.model = "mock" THEN {FALSE} ELSE BOOLEAN) :
                      LET run == IF ld.model = "mock"
                                 THEN _mock_transcription(decodable)
                                 ELSE _real_transcription(ld.model, decodable, invoke_ok)
                      IN /\ calls' = Append(calls,
                                        [begun EXCEPT
                                           !.pc = IF run.suspends THEN "sleeping"
                                                  ELSE "returned",
                                           !.cleanups = IF run.suspends THEN 0
                                                        ELSE cleanup_after_inference(svc),
                                           !.invoked = run.invoked,
                                           !.result = run.result])
                         /\ disk' = IF run.suspends THEN d ELSE d \ {ProcessedWav}

\* transcription_service.py:308-319, 254-269: the mock wakes up, returns its
\* payload, and the finally block removes the processed file if it exists.
transcription_service_resume(c) ==
    /\ UNCHANGED <<job_vars, dev_vars>>
    /\ c \in DOMAIN calls
    /\ calls[c].pc = "sleeping"
    /\ calls' = [calls EXCEPT ![c].pc = "returned",
                              ![c].cleanups = @ + cleanup_after_inference(calls[c].svc)]
    /\ disk' = disk \ {ProcessedWav}
    /\ UNCHANGED <<model, load_log>>

\* canary_transcription.py:98-184  transcribe_audio up to run_in_executor:
\* load (101-104), file check (109-110), librosa.load (113), and the
\* submission of transcribe_sync to a new executor (183-184).  The device
\* chosen at 118-126 only labels the payload and is left out of it.
canary_transcription_transcribe_audio(c) ==
    /\ UNCHANGED <<job_vars, dev_vars>>
    /\ NextCall(c)
    /\ UNCHANGED disk
    /\ \E avail \in Availabilities("canary_transcription"),
          exists \in BOOLEAN, decodable \in BOOLEAN :
         LET svc == "canary_transcription"
             ld == EnsureLoaded(svc, avail)
             begun == [IdleCall EXCEPT !.svc = svc, !.load = ld.load]
             failed(msg) == [begun EXCEPT !.pc = "returned",
                                          !.cleanups = cleanup_after_inference(svc),
                                          !.result = Some(CanaryFailure(msg))]
         IN /\ model' = [model EXCEPT ![svc] = ld.model]
            /\ load_log' = LogLoads(load_log, ld.load)
            /\ calls' = Append(calls,
                 IF ~ld.ok THEN failed("Failed to load Canary transcription model")
                 ELSE IF ~exists THEN failed("Audio file not found")
                 ELSE IF ~decodable THEN failed("librosa.load failed")
                 ELSE [begun EXCEPT !.pc = "executing"])

\* canary_transcription.py:184-205: transcribe_sync finished in its thread;
\* its value becomes the payload, its exception the failure payload.
canary_transcription_resume(c) ==
    /\ UNCHANGED <<job_vars, dev_vars>>
    /\ c \in DOMAIN calls
    /\ calls[c].pc = "executing" /\ calls[c].svc = "canary_transcription"
    /\ UNCHANGED <<model, load_log, disk>>
    /\ \E ok \in BOOLEAN :
         calls' = [calls EXCEPT ![c] =
                     [@ EXCEPT !.pc = "returned",
                               !.cleanups = @ + cleanup_after_inference(calls[c].svc),
                               !.invoked = <<Invoked(model[calls[c].svc], ok)>>,
                               !.result = IF ok
                                          THEN Some(TextResult(CanaryModelName, 95))
                                          ELSE Some(CanaryFailure("transcribe failed"))]]

\* whisper_transcription.py:59-96  transcribe_audio up to run_in_executor.
whisper_transcription_transcribe_audio(c) ==
    /\ UNCHANGED <<job_vars, dev_vars>>
    /\ NextCall(c)
    /\ UNCHANGED disk
    /\ \E avail \in Availabilities("whisper_transcription"),
          exists \in BOOLEAN, decodable \in BOOLEAN :
         LET svc == "whisper_transcription"
             ld == EnsureLoaded(svc, avail)
             begun == [IdleCall EXCEPT !.svc = svc, !.load = ld.load]
             failed(msg) == [begun EXCEPT !.pc = "returned",
                                          !.cleanups = cleanup_after_inference(svc),
                                          !.result = Some(ErrorResult(msg))]
         IN /\ model' = [model EXCEPT ![svc] = ld.model]
            /\ load_log' = LogLoads(load_log, ld.load)
            /\ calls' = Append(calls,
                 IF ~ld.ok THEN failed("Failed to load transcription model")
                 ELSE IF ~exists THEN failed("Audio file not found")
                 ELSE IF ~decodable THEN failed("librosa.load failed")
                 ELSE [begun EXCEPT !.pc = "executing"])

\* whisper_transcription.py:96-115: transcribe_sync finished in its thread.
whisper_transcription_resume(c) ==
    /\ UNCHANGED <<job_vars, dev_vars>>
    /\ c \in DOMAIN calls
    /\ calls[c].pc = "executing" /\ calls[c].svc = "whisper_transcription"
    /\ UNCHANGED <<model, load_log, disk>>
    /\ \E ok \in BOOLEAN :
         calls' = [calls EXCEPT ![c] =
                     [@ EXCEPT !.pc = "returned",
                               !.cleanups = @ + cleanup_after_inference(calls[c].svc),
                               !.invoked = <<Invoked(model[calls[c].svc], ok)>>,
                               !.result = IF ok
                                          THEN Some(TextResult(WhisperModelName, 80))
                                          ELSE Some(ErrorResult("transcribe failed"))]]

\* The state in which the services are called directly: the scheduler has
\* no job and handles no request.
ServiceInit ==
    /\ jobs = << >>
    /\ issued = 0
    /\ uploads = << >>
    /\ task = [j \in JobIds |-> "none"]
    /\ spawned = [j \in JobIds |-> 0]
    /\ gpu_devices = << >>
    /\ resp = [op |-> "none", id |-> 0, code |-> 0]
    /\ ServiceStart
    /\ DeviceStart

ServiceNext ==
    \/ \E c \in CallIds, ext \in SUPPORTED_FORMATS :
         transcription_service_transcribe_audio(c, ext)
    \/ \E c \in CallIds : transcription_service_resume(c)
    \/ \E c \in CallIds : canary_transcription_transcribe_audio(c)
    \/ \E c \in CallIds : canary_transcription_resume(c)
    \/ \E c \in CallIds : whisper_transcription_transcribe_audio(c)
    \/ \E c \in CallIds : whisper_transcription_resume(c)

ServiceSpec == ServiceInit /\ [][ServiceNext]_vars

----------------------------------------------------------------------------
\* The device allocator, asked as main.py:270 and
\* canary_transcription.py:119 ask it.

\* One call hardware_optimizer.get_device_for_job(job_id); the answer is
\* appended to the record for job_id.
call_get_device_for_job(job_id) ==
    LET answers == IF job_id \in DOMAIN picked THEN picked[job_id] ELSE << >> IN
    /\ Len(answers) < MaxPicks
    /\ picked' = With(picked, job_id,
                      Append(answers, get_device_for_job(gpu_devices, job_hash(job_id))))
    /\ UNCHANGED <<is_available, host_vars>>
    /\ UNCHANGED <<job_vars, svc_vars>>

\* hardware_config.py:12-19: GPUInfo is a mutable dataclass; marking the
\* i-th enumerated device unavailable, or live again, is the assignment
\* hardware_optimizer.gpu_devices[i].is_available = live.
set_is_available(i, live) ==
    /\ i \in DOMAIN gpu_devices
    /\ is_available[i] # live
    /\ is_available' = [is_available EXCEPT ![i] = live]
    /\ UNCHANGED <<picked, host_vars>>
    /\ UNCHANGED <<job_vars, svc_vars>>

\* A process whose inventory was enumerated by detect_gpus and in which
\* nothing but the allocator runs.
DeviceInit ==
    /\ jobs = << >>
    /\ issued = 0
    /\ uploads = << >>
    /\ task = [j \in JobIds |-> "none"]
    /\ spawned = [j \in JobIds |-> 0]
    /\ gpu_devices \in Inventories
    /\ resp = [op |-> "none", id |-> 0, code |-> 0]
    /\ ServiceStart
    /\ DeviceStart

DeviceNext ==
    \/ \E job_id \in DeviceJobIds : call_get_device_for_job(job_id)
    \/ \E i \in 1..MaxGpus, live \in BOOLEAN : set_is_available(i, live)

DeviceSpec == DeviceInit /\ [][DeviceNext]_vars

----------------------------------------------------------------------------
\* The worker pool.

\* main.py:18-20: the module creates the pool while it is imported, from
\* the size the hardware optimizer computes for the host.
create_executor ==
    /\ executor = None
    /\ LET max_workers == get_optimal_workers(cpu_count,
                                              available_system_memory_gb,
                                              gpu_devices)
       IN  executor' = Some(ThreadPoolExecutor(max_workers))
    /\ UNCHANGED <<cpu_count, available_system_memory_gb, picked, is_available>>
    /\ UNCHANGED <<job_vars, svc_vars>>

\* A host of any inventory, CPU count and available memory, on which
\* main.py is about to be imported.
PoolInit ==
    /\ jobs = << >>
    /\ issued = 0
    /\ uploads = << >>
    /\ task = [j \in JobIds |-> "none"]
    /\ spawned = [j \in JobIds |-> 0]
    /\ gpu_devices \in Inventories
    /\ resp = [op |-> "none", id |-> 0, code |-> 0]
    /\ ServiceStart
    /\ picked = << >>
    /\ is_available = [i \in DOMAIN gpu_devices |-> TRUE]
    /\ cpu_count \in 1..MaxCpus
    /\ available_system_memory_gb \in MemoriesGb
    /\ executor = None

PoolNext == create_executor

PoolSpec == PoolInit /\ [][PoolNext]_vars

----------------------------------------------------------------------------
\* The handlers that only read the registry, as functions of the job record
\* they find there.

\* main.py:106-116: the record upload stores for a file with suffix ext.
UploadedJob(ext) ==
    [id_hash |-> 0, status |-> PENDING, ext |-> ext, file_size |-> 1,
     result |-> None, error |-> None, progress |-> None, assigned_gpu |-> None,
     stages |-> << >>]

\* The job records that the statements of main.py which write a job leave
\* behind: upload (106-116), start (141), the task after the service call
\* returned a payload (267, 278-280: whatever payload, an error payload
\* included, becomes the result of a completed job), and the task's
\* exception handler (283-285).
JobRecords ==
    LET pending == {UploadedJob(ext) : ext \in SUPPORTED_FORMATS}
        started == {[p EXCEPT !.status = PROCESSING] : p \in pending}
        preprocessing ==
            {[p EXCEPT !.progress = NewProgress(p.progress, "preprocessing", 10, None),
                       !.stages = Append(@, "allocate")] :
                p \in started}
        completed ==
            UNION {{[p EXCEPT !.stages = @ \o StagesOfCall(result),
                              !.result = Some(result), !.status = COMPLETED,
                              !.progress = NewProgress(p.progress, "completed", 100, None)] :
                       result \in ServiceResults(TRUE, TRUE, p.ext)
                                     \cup ServiceResults(TRUE, FALSE, p.ext)} :
                   p \in preprocessing}
        failed ==
            {[p EXCEPT !.status = FAILED, !.error = Some(TypeErrorMessage),
                       !.progress = NewProgress(p.progress, "failed", 0, None)] :
                p \in preprocessing}
    IN pending \cup started \cup completed \cup failed

\* main.py:193-239  GET /download/{job_id}.  `not job.get("result")` is true
\* for None (a payload is a non-empty dict); the text file carries the
\* transcription and result.get("model", "Unknown").
download_transcription(job_id) ==
    /\ UNCHANGED <<svc_vars, dev_vars>>
    /\ UNCHANGED <<jobs, issued, uploads, task, spawned, gpu_devices>>
    /\ IF job_id \notin DOMAIN jobs
       THEN \* 196-197
            resp' = [op |-> "download", id |-> job_id, code |-> 404]
       ELSE LET job == jobs[job_id] IN
            IF job.status # COMPLETED
            THEN \* 200-201
                 resp' = [op |-> "download", id |-> job_id, code |-> 400]
            ELSE IF ~IsSet(job.result)
            THEN \* 200-201
                 resp' = [op |-> "download", id |-> job_id, code |-> 400]
            ELSE IF job.result[1].transcription = ""
            THEN \* 203-205
                 resp' = [op |-> "download", id |-> job_id, code |-> 400]
            ELSE \* 207-239
                 resp' = [op |-> "download", id |-> job_id, code |-> 200,
                          content |-> [transcription |-> job.result[1].transcription,
                                       model |-> IF IsSet(job.result[1].model)
                                                 THEN job.result[1].model[1]
                                                 ELSE "Unknown"]]

\* A process whose registry holds up to MaxJobs job records and in which
\* only the reading handlers run.
HandlerInit ==
    /\ \E n \in 0..MaxJobs : jobs \in [1..n -> JobRecords]
    /\ issued = Cardinality(DOMAIN jobs)
    /\ uploads = [j \in DOMAIN jobs |-> [size |-> 1, readable |-> TRUE]]
    /\ task = [j \in JobIds |->
                 IF j \notin DOMAIN jobs THEN "none"
                 ELSE IF jobs[j].status = PENDING THEN "none"
                 ELSE IF jobs[j].status = PROCESSING THEN "scheduled"
                 ELSE "done"]
    /\ spawned = [j \in JobIds |->
                    IF j \in DOMAIN jobs THEN
                       IF jobs[j].status = PENDING THEN 0 ELSE 1
                    ELSE 0]
    /\ gpu_devices = << >>
    /\ resp = [op |-> "none", id |-> 0, code |-> 0]
    /\ ServiceStart
    /\ DeviceStart

HandlerNext ==
    \/ \E job_id \in ProbeIds : get_job_status(job_id)
    \/ \E job_id \in ProbeIds : get_transcription_result(job_id)
    \/ \E job_id \in ProbeIds : download_transcription(job_id)

HandlerSpec == HandlerInit /\ [][HandlerNext]_vars

----------------------------------------------------------------------------
\* Properties of the job scheduler.

Terminal == {COMPLETED, FAILED}
\* The identifier was handed out by upload and is no longer in the registry.
Deleted(j) == j \in 1..issued /\ j \notin DOMAIN jobs

\* C1: the status of a job in the registry changes only from Pending to
\* Processing, in a step that answers a start of that job with success, or
\* from Processing to Completed or Failed; the status of a Completed or
\* Failed job never changes.
C1_StatusTransitions ==
    [][\A j \in JobIds :
         (j \in DOMAIN jobs /\ j \in DOMAIN jobs'
             /\ jobs'[j].status # jobs[j].status) =>
            \/ /\ jobs[j].status = PENDING
               /\ jobs'[j].status = PROCESSING
               /\ resp' = [op |-> "transcribe", id |-> j, code |-> 200,
                           status |-> PROCESSING]
            \/ /\ jobs[j].status = PROCESSING
               /\ jobs'[j].status \in Terminal]_vars

\* C1 witness: a job went Pending -> Processing -> Failed and is still there.
C1_Witness ==
    \E j \in DOMAIN jobs : jobs[j].status = FAILED /\ task[j] = "done"

\* C2: a background task is created for a job only by a start on a Pending
\* job that had none, so at most one per job; a start on a job that is
\* Processing, Completed or Failed answers 400 (InvalidState) and changes
\* neither the registry nor the tasks.
C2_SingleStart ==
    [][\A j \in JobIds :
         /\ spawned'[j] # spawned[j] =>
               /\ spawned[j] = 0 /\ spawned'[j] = 1
               /\ j \in DOMAIN jobs /\ jobs[j].status = PENDING
         /\ task'[j] = "scheduled" /\ task[j] # "scheduled" => spawned[j] = 0
         /\ (j \in DOMAIN jobs /\ jobs[j].status # PENDING /\ transcribe_audio(j)) =>
               /\ resp' = [op |-> "transcribe", id |-> j, code |-> 400]
               /\ UNCHANGED <<jobs, task, spawned, uploads>>]_vars

\* C2 witness: a start was refused for a job that already finished its one task.
C2_Witness ==
    \E j \in DOMAIN jobs :
        /\ resp = [op |-> "transcribe", id |-> j, code |-> 400]
        /\ jobs[j].status = FAILED
        /\ spawned[j] = 1

\* C3: a Completed or Failed job has exactly one of result and error set; a
\* Pending or Processing job has neither.
C3_ResultXorError ==
    \A j \in DOMAIN jobs :
        /\ jobs[j].status \in Terminal =>
              (IsSet(jobs[j].result) # IsSet(jobs[j].error))
        /\ jobs[j].status \in {PENDING, PROCESSING} =>
              (~IsSet(jobs[j].result) /\ ~IsSet(jobs[j].error))

\* C3 witness: a terminal job with its error set and no result.
C3_Witness ==
    \E j \in DOMAIN jobs :
        jobs[j].status \in Terminal /\ IsSet(jobs[j].error) /\ ~IsSet(jobs[j].result)

\* A job deleted while Processing: its task was created and either has not
\* run yet or ended without finding the job.
DeletedWhileProcessing(j) == Deleted(j) /\ task[j] \in {"scheduled", "raised"}

\* C4: a job deleted while Processing stays out of the registry in every
\* later step, the end of its background task included, and get_status for
\* it answers 404 (NotFound).
C4_DeletedStaysDeleted ==
    [][\A j \in JobIds :
         DeletedWhileProcessing(j) =>
            /\ j \notin DOMAIN jobs'
            /\ get_job_status(j) => resp' = [op |-> "status", id |-> j, code |-> 404]]_vars

\* C4 witness: the task of a job deleted while Processing has ended, and a
\* get_status for the job was answered afterwards.
C4_Witness ==
    \E j \in JobIds :
        /\ Deleted(j) /\ task[j] = "raised"
        /\ resp = [op |-> "status", id |-> j, code |-> 404]

\* C5: no background task ends with an exception that leaves the task.
C5_NoUncaughtException ==
    \A j \in JobIds : task[j] # "raised"

\* The upload of job j is on disk and cannot be decoded.
Unreadable(j) == j \in DOMAIN uploads /\ ~uploads[j].readable
\* The upload of job j is on disk and can be decoded.
Readable(j) == j \in DOMAIN uploads /\ uploads[j].readable

\* C6: a started job whose audio cannot be normalized ends Failed, with the
\* normalization failure in its error field and no result.
C6_UnreadableAudioFails ==
    \A j \in DOMAIN jobs :
        (task[j] = "done" /\ Unreadable(j)) =>
            /\ jobs[j].status = FAILED
            /\ jobs[j].error = Some(PreprocessError(jobs[j].ext))
            /\ jobs[j].result = None

C8_ReadableJobCompletes ==
    \A j \in DOMAIN jobs :
        (task[j] = "done" /\ Readable(j)) =>
            /\ jobs[j].status = COMPLETED
            /\ IsSet(jobs[j].result)
            /\ jobs[j].result[1].transcription # ""
            /\ IsSet(jobs[j].result[1].model)

\* C9: every job that is Processing is, later on, Completed, Failed or
\* deleted (under FairSpec: the event loop runs every scheduled task).
C9_StartedJobTerminates ==
    \A j \in JobIds :
        (j \in DOMAIN jobs /\ jobs[j].status = PROCESSING)
            ~> (j \notin DOMAIN jobs \/ jobs[j].status \in Terminal)

\* C9 witness: two jobs were started and the later one reached its terminal
\* state while the earlier one is still Processing.
C9_Witness ==
    \E i, j \in DOMAIN jobs :
        /\ i < j
        /\ jobs[i].status = PROCESSING /\ task[i] = "scheduled"
        /\ jobs[j].status \in Terminal /\ task[j] = "done"

\* C10: for an identifier that is not in the registry (never submitted, or
\* deleted), get_status, get_result, start and delete answer 404 (NotFound)
\* and change neither the registry, the files nor the tasks.
C10_UnknownIsNotFound ==
    [][\A j \in ProbeIds :
         (/\ j \notin DOMAIN jobs
          /\ resp'.id = j
          /\ \/ resp'.op = "status" /\ get_job_status(j)
             \/ resp'.op = "result" /\ get_transcription_result(j)
             \/ resp'.op = "transcribe" /\ transcribe_audio(j)
             \/ resp'.op = "delete" /\ delete_job(j)) =>
            /\ resp'.code = 404
            /\ UNCHANGED <<jobs, uploads, task, spawned, issued>>]_vars

\* C10 witness: get_result was refused for a deleted job whose file
\* is still on disk, next to another job in the registry.
C10_Witness ==
    \E j \in JobIds :
        /\ Deleted(j) /\ j \in DOMAIN uploads
        /\ resp = [op |-> "result", id |-> j, code |-> 404]
        /\ DOMAIN jobs # {}


\* C11: an upload whose extension is missing or not a supported format is
\* refused with 400 (InvalidInput) and changes neither the registry nor the
\* files; an upload of a supported, non-empty file adds exactly one job, in
\* status pending with result and error unset, and leaves the others alone.
\* (Each half reads "the step has the stated effect, or it is no such
\* upload".)
C11_UploadValidation ==
    [][resp'.op = "upload" =>
       /\ \/ resp'.code = 400 /\ UNCHANGED <<jobs, uploads, issued>>
          \/ \A ext \in Suffixes \ SUPPORTED_FORMATS, size \in 0..1, readable \in BOOLEAN :
                ~upload_audio(ext, size, readable)
       /\ \/ /\ resp'.code = 200
             /\ resp'.id \notin DOMAIN jobs
             /\ DOMAIN jobs' = DOMAIN jobs \cup {resp'.id}
             /\ \A j \in DOMAIN jobs : jobs'[j] = jobs[j]
             /\ jobs'[resp'.id].status = PENDING
             /\ jobs'[resp'.id].result = None
             /\ jobs'[resp'.id].error = None
             /\ DOMAIN uploads' = DOMAIN uploads \cup {resp'.id}
          \/ \A ext \in Suffixes \cap SUPPORTED_FORMATS, readable \in BOOLEAN :
                ~upload_audio(ext, 1, readable)]_vars

\* C11 witness: an upload was refused with 400 after an earlier upload had
\* been accepted as a pending job with neither result nor error.
C11_Witness ==
    /\ resp = [op |-> "upload", id |-> 0, code |-> 400]
    /\ \E j \in DOMAIN jobs :
         jobs[j].status = PENDING /\ jobs[j].result = None /\ jobs[j].error = None

\* C12: an upload of a supported but zero-size file is refused with 400, the
\* same kind as an unsupported format, and leaves no job and no file.
C12_EmptyUploadIsInvalidInput ==
    [][resp'.op = "upload" =>
       \A ext \in SUPPORTED_FORMATS \cap Suffixes, readable \in BOOLEAN :
         upload_audio(ext, 0, readable) =>
            /\ resp'.code = 400
            /\ UNCHANGED <<jobs, uploads, issued>>]_vars

\* C13: delete of a job in the registry, whatever its status, removes the
\* entry and nothing else from the registry and answers 200; the job's
\* file is the only file it may remove, it can remove it, and the entry goes
\* even when the file stays; afterwards the identifier is never in the
\* registry again and get_status, get_result, start and delete answer 404.
C13_DeleteRemovesJob ==
    /\ [](\A j \in DOMAIN jobs :
            j \in DOMAIN uploads =>
               ENABLED (delete_job(j) /\ j \notin DOMAIN uploads'))
    /\ [][\A j \in JobIds :
            /\ (/\ j \in DOMAIN jobs /\ resp'.id = j /\ resp'.op = "delete"
                /\ delete_job(j)) =>
                  /\ resp'.code = 200
                  /\ jobs' = Without(jobs, j)
                  /\ uploads' \in {uploads, Without(uploads, j)}
            /\ Deleted(j) =>
                  /\ j \notin DOMAIN jobs'
                  /\ (/\ resp' # resp /\ resp'.id = j
                      /\ resp'.op \in {"status", "result", "transcribe", "delete"})
                        => resp'.code = 404]_vars

\* C13 witness: a job whose task was still scheduled was deleted, the
\* removal of its file failed, and a later start for it was answered 404.
C13_Witness ==
    \E j \in JobIds :
        /\ Deleted(j) /\ j \in DOMAIN uploads /\ task[j] = "scheduled"
        /\ resp = [op |-> "transcribe", id |-> j, code |-> 404]


\* What the holder of the status snapshot r reads from it now.  The status
\* is the snapshot's own entry (main.py:155); the progress entry is the
\* job's dict object itself (162-163), so it is read through the job for as
\* long as the job holds that object.
SnapshotNow(r) ==
    [status |-> r.status,
     progress |-> IF /\ r.id \in DOMAIN jobs
                     /\ IsSet(r.progress) /\ IsSet(jobs[r.id].progress)
                     /\ jobs[r.id].progress[1].obj = r.progress[1].obj
                  THEN jobs[r.id].progress
                  ELSE r.progress]

\* C22: a status snapshot is taken in one step from one state of the job
\* (status and progress are those the job has in that state, and the step
\* does not change the job), and what its holder reads from it afterwards is
\* what it held when it was returned, whatever the job's task did since.
C22_StatusIsSnapshot ==
    /\ [][(resp'.op = "status" /\ resp'.code = 200 /\ resp' # resp) =>
            /\ resp'.id \in DOMAIN jobs
            /\ resp'.status = jobs[resp'.id].status
            /\ resp'.progress = jobs[resp'.id].progress
            /\ jobs' = jobs]_vars
    /\ [](resp.op = "status" /\ resp.code = 200 =>
            SnapshotNow(resp) = [status |-> resp.status, progress |-> resp.progress])
    /\ [][\A j \in JobIds :
            (task[j] = "scheduled" /\ task'[j] # "scheduled") => resp' = resp]_vars

\* C22 witness: a snapshot taken while the job was processing, before its
\* task ran, still shows processing and no progress after the task made
\* the job failed and gave it a progress dict.
C22_Witness ==
    /\ resp.op = "status" /\ resp.code = 200
    /\ resp.status = PROCESSING /\ resp.progress = None
    /\ resp.id \in DOMAIN jobs
    /\ jobs[resp.id].status = FAILED /\ IsSet(jobs[resp.id].progress)
    /\ task[resp.id] = "done"

\* The entries of a response besides op, id and code.
Body(r) == DOMAIN r \ {"op", "id", "code"}

\* C23: get_result for a job in the registry answers 200 with the job's
\* status and, for a completed job, its result (and no error); for a failed
\* job, its error (and no result); for a pending or processing job, the
\* in-progress message and neither result nor error; the step changes
\* neither the job nor anything else of the scheduler.
C23_ResultByStatus ==
    [][(resp'.op = "result" /\ resp' # resp /\ resp'.id \in DOMAIN jobs) =>
         LET job == jobs[resp'.id] IN
         /\ resp'.code = 200
         /\ resp'.status = job.status
         /\ IF job.status = COMPLETED
            THEN Body(resp') = {"status", "result"} /\ resp'.result = job.result
            ELSE IF job.status = FAILED
            THEN Body(resp') = {"status", "error"} /\ resp'.error = job.error
            ELSE /\ Body(resp') = {"status", "message"}
                 /\ resp'.message = "Transcription still in progress"
         /\ UNCHANGED <<jobs, uploads, task, spawned, issued>>]_vars

\* C23 witness: get_result answered a failed job with its error while
\* another job, still processing, is in the registry.
C23_Witness ==
    /\ resp.op = "result" /\ resp.code = 200
    /\ resp.id \in DOMAIN jobs
    /\ jobs[resp.id].status = FAILED
    /\ Body(resp) = {"status", "error"} /\ resp.error = jobs[resp.id].error
    /\ \E j \in DOMAIN jobs : jobs[j].status = PROCESSING

\* The task of job j was created and has not ended.
TaskActive(j) == task[j] = "scheduled"

\* C26: a task is active only for a job that is processing or was deleted
\* from the registry after its start; no job of the registry that is
\* pending, completed or failed has an active task; every processing job of
\* the registry has an active task, the only task ever created for it.
C26_TaskOnlyWhileProcessing ==
    \A j \in JobIds :
        /\ TaskActive(j) =>
              IF j \in DOMAIN jobs THEN jobs[j].status = PROCESSING ELSE Deleted(j)
        /\ j \in DOMAIN jobs =>
              IF jobs[j].status = PROCESSING
              THEN TaskActive(j) /\ spawned[j] = 1
              ELSE ~TaskActive(j)

\* C26 witness: one job was deleted while its task was active, and another
\* job of the registry is processing with its own task active.
C26_Witness ==
    \E i, j \in JobIds :
        /\ Deleted(i) /\ TaskActive(i)
        /\ j \in DOMAIN jobs /\ jobs[j].status = PROCESSING /\ TaskActive(j)
        /\ spawned[j] = 1

\* The order of the pipeline stages of a job.
PipelineOrder == <<"normalize", "allocate", "invoke">>

\* C32: the stages that have run for a job are, in the order they ran, an
\* initial part of normalize, allocate, invoke: no stage runs before the
\* stage in front of it has run, and none runs twice.
C32_StagesInOrder ==
    \A j \in DOMAIN jobs :
        /\ Len(jobs[j].stages) <= Len(PipelineOrder)
        /\ \A i \in 1..Len(jobs[j].stages) : jobs[j].stages[i] = PipelineOrder[i]

\* The step is the background task of job j running.
TaskStep(j) == task[j] = "scheduled" /\ task'[j] # "scheduled"

\* The step is a start of job j that was accepted.
StartStep(j) ==
    /\ resp'.op = "transcribe" /\ resp'.id = j /\ resp'.code = 200
    /\ task[j] # "scheduled" /\ task'[j] = "scheduled"

\* The step is a delete of job j that removed it.
DeleteStep(j) ==
    /\ resp'.op = "delete" /\ resp'.id = j /\ resp'.code = 200
    /\ j \in DOMAIN jobs /\ j \notin DOMAIN jobs'

\* C34: a step that is the background task of a job, or an accepted start
\* or delete of it, leaves every other job in the registry with the record
\* it had; and whenever the record of a job that stays in the registry
\* changes, the step is that job's own start or its own background task.
C34_OtherJobsUntouched ==
    [][jobs' # jobs => \A j \in JobIds :
          /\ (\E i \in JobIds \ {j} : TaskStep(i) \/ StartStep(i) \/ DeleteStep(i))
                => /\ (j \in DOMAIN jobs) = (j \in DOMAIN jobs')
                   /\ j \in DOMAIN jobs => jobs'[j] = jobs[j]
          /\ (j \in DOMAIN jobs /\ j \in DOMAIN jobs' /\ jobs'[j] # jobs[j])
                => StartStep(j) \/ TaskStep(j)]_vars

\* C34 witness: one job was started and its task ran and failed it, while
\* another job of the registry is still pending with the record upload
\* gave it.
C34_Witness ==
    \E i, j \in DOMAIN jobs :
        /\ i # j
        /\ jobs[i].status = FAILED /\ task[i] = "done"
        /\ jobs[j].status = PENDING /\ jobs[j].progress = None
        /\ jobs[j].assigned_gpu = None /\ jobs[j].error = None
        /\ jobs[j].result = None /\ spawned[j] = 0

\* C37: the percent of every progress descriptor lies in 0..100; a pending
\* job has no progress descriptor; and a job has a descriptor with percent
\* 100 exactly when its status is completed.
C37_ProgressPercent ==
    \A j \in DOMAIN jobs :
        /\ IsSet(jobs[j].progress) => jobs[j].progress[1].percent \in 0..100
        /\ jobs[j].status = PENDING => jobs[j].progress = None
        /\ (IsSet(jobs[j].progress) /\ jobs[j].progress[1].percent = 100)
              <=> jobs[j].status = COMPLETED

\* C37 witness: one job is pending, or started with its task not yet run,
\* and has no descriptor, and another ran its task and has the descriptor
\* of the failure, percent 0.
C37_Witness ==
    \E i, j \in DOMAIN jobs :
        /\ jobs[i].status \in {PENDING, PROCESSING} /\ jobs[i].progress = None
        /\ jobs[j].status = FAILED /\ IsSet(jobs[j].progress)
        /\ jobs[j].progress[1].stage = "failed"
        /\ jobs[j].progress[1].percent = 0

----------------------------------------------------------------------------
\* Properties of the transcription services.

\* Call c has returned its payload to its caller.
Returned(c) == calls[c].pc = "returned"

\* Some loader of svc has produced a model.
LoadSucceeded(svc) ==
    \E i \in 1..Len(LoaderOrder(svc)) :
        LET l == LoaderOrder(svc)[i] IN load_log[l].attempts > load_log[l].failures

\* C14: once a loader has failed, no later step attempts it again.
C14_FailedLoaderNotRetried ==
    [][\A l \in Loaders :
         load_log[l].failures > 0 => load_log'[l].attempts = load_log[l].attempts]_vars

\* C15: no loader is attempted before the first call of its service, a
\* loader succeeds at most once, and once a loader of a service has
\* succeeded no step, of whatever call, attempts a loader of that service.
C15_LazyLoadOnce ==
    /\ [](\A svc \in Services :
            /\ (\A c \in DOMAIN calls : calls[c].svc # svc) =>
                  /\ model[svc] = "None"
                  /\ \A i \in 1..Len(LoaderOrder(svc)) :
                        load_log[LoaderOrder(svc)[i]].attempts = 0
            /\ \A i \in 1..Len(LoaderOrder(svc)) :
                  LET l == LoaderOrder(svc)[i] IN
                  load_log[l].attempts - load_log[l].failures <= 1)
    /\ [][\A svc \in Services :
            LoadSucceeded(svc) =>
               \A i \in 1..Len(LoaderOrder(svc)) :
                  load_log'[LoaderOrder(svc)[i]] = load_log[LoaderOrder(svc)[i]]]_vars

\* C15 witness: a second call of a service started, without loading, while
\* the first call, which loaded the model, was still suspended.
C15_Witness ==
    \E svc \in Services :
        /\ Len(calls) >= 2
        /\ calls[1].svc = svc /\ calls[1].pc \in {"sleeping", "executing"}
        /\ \E i \in 1..Len(calls[1].load) : calls[1].load[i].ok
        /\ LoadSucceeded(svc)
        /\ calls[2].svc = svc /\ calls[2].load = << >>

\* The model name a payload of the loaded model `tier` carries.
ModelNameOf(tier) ==
    IF tier = "whisper" THEN WhisperModelName
    ELSE IF tier = "mock" THEN MockModelName
    ELSE CanaryModelName

\* C16: when the first model invoked for a call is a real model and it
\* answers, the call returns that model's payload: nothing else is invoked
\* and the payload carries the real model's name, not the mock's.
C16_RealSuccessReturnsReal ==
    \A c \in DOMAIN calls :
        (/\ Returned(c) /\ calls[c].invoked # << >>
         /\ calls[c].invoked[1].tier # "mock" /\ calls[c].invoked[1].ok) =>
           /\ Len(calls[c].invoked) = 1
           /\ calls[c].result[1].error = None
           /\ calls[c].result[1].model = Some(ModelNameOf(calls[c].invoked[1].tier))
           /\ calls[c].result[1].model # Some(MockModelName)

\* C16 witness: a call of transcription_service whose SALM model answered
\* has returned, after an earlier call had fallen back to the mock.
C16_Witness ==
    /\ Len(calls) >= 2
    /\ Returned(1) /\ Len(calls[1].invoked) = 2
    /\ Returned(2) /\ calls[2].invoked = <<Invoked("SALM", TRUE)>>

\* Every loader that call c ran failed, and nothing took its place.
NoTierLoaded(c) ==
    /\ calls[c].load # << >>
    /\ \A i \in 1..Len(calls[c].load) : ~calls[c].load[i].ok

\* C17: a call for which every tier failed to load does not return a
\* payload: it fails with NoBackendAvailable, so that its job becomes failed.
C17_NoBackendFailsJob ==
    \A c \in DOMAIN calls :
        NoTierLoaded(c) =>
           /\ calls[c].pc = "raised"
           /\ calls[c].result = Some(ErrorResult("NoBackendAvailable"))

\* The payload of call c was produced by the mock.
ProducedByMock(c) ==
    /\ Returned(c) /\ calls[c].invoked # << >>
    /\ calls[c].invoked[Len(calls[c].invoked)].tier = "mock"

\* C18: every payload the mock produces, whether the mock is the loaded
\* model or took over from a real model that failed, names the mock as its
\* model, and that name is not the name of a real model.
C18_MockResultIsMarked ==
    \A c \in DOMAIN calls :
        ProducedByMock(c) =>
           /\ calls[c].result[1].model = Some(MockModelName)
           /\ MockModelName \notin {CanaryModelName, WhisperModelName}

\* C19: when no call is in flight, neither temp_wav nor the processed
\* file of any finished call is on disk.
C19_NoIntermediateFileLeft ==
    (\A c \in DOMAIN calls : Returned(c)) => disk = {}


\* No model answered call c: none was invoked, or the last one invoked failed.
NotAnswered(c) ==
    \/ calls[c].invoked = << >>
    \/ ~calls[c].invoked[Len(calls[c].invoked)].ok

\* C24: no call of a service's transcribe_audio raises; a call that no
\* model answered (failed load, missing file, failed preprocessing, failed
\* invocation) returns a payload with a non-empty error, an empty
\* transcription, confidence 0 and duration 0; a call that a model answered
\* returns a payload without an error.
C24_FailuresAreReturned ==
    \A c \in DOMAIN calls :
        /\ calls[c].pc # "raised"
        /\ Returned(c) =>
              /\ IsSet(calls[c].result)
              /\ IsSet(calls[c].result[1].error) <=> NotAnswered(c)
              /\ IsSet(calls[c].result[1].error) =>
                    /\ calls[c].result[1].error[1] # ""
                    /\ calls[c].result[1].transcription = ""
                    /\ calls[c].result[1].confidence = 0
                    /\ calls[c].result[1].duration = 0
              /\ ~IsSet(calls[c].result[1].error) =>
                    calls[c].result[1].transcription # ""

\* The tiers of a service in priority order: the models its loaders produce
\* and, for transcription_service, the mock behind them.
TierOrder(svc) ==
    IF svc = "transcription_service" THEN LoaderOrder(svc) \o <<"mock">>
    ELSE LoaderOrder(svc)

\* The position of a tier in its service's priority order.
TierRank(svc, tier) ==
    CHOOSE i \in 1..Len(TierOrder(svc)) : TierOrder(svc)[i] = tier

\* C27: in a call that has returned, every invocation that failed in a tier
\* other than the last of its service was followed by an invocation of the
\* next tier, and a failure payload is returned only after the last tier
\* was invoked (or none was).
C27_RuntimeFailureTriesNextTier ==
    \A c \in DOMAIN calls :
        Returned(c) =>
           LET svc == calls[c].svc
               invoked == calls[c].invoked
           IN /\ \A i \in 1..Len(invoked) :
                    (/\ ~invoked[i].ok
                     /\ TierRank(svc, invoked[i].tier) < Len(TierOrder(svc))) =>
                       /\ i < Len(invoked)
                       /\ invoked[i + 1].tier =
                             TierOrder(svc)[TierRank(svc, invoked[i].tier) + 1]
              /\ (IsSet(calls[c].result[1].error) /\ invoked # << >>) =>
                    TierRank(svc, invoked[Len(invoked)].tier) = Len(TierOrder(svc))

\* The decode strategies of preprocess_audio in the order of the source.
StrategyOrder == <<"librosa", "pydub", "ffmpeg">>

\* C28: preprocess_audio runs its decode strategies in the order librosa,
\* pydub, ffmpeg; a strategy that produced decoded audio is the last one
\* run; a strategy that failed, for whatever reason, is followed by the
\* next one unless it is the last.
C28_StrategyChain ==
    \A c \in DOMAIN calls :
        LET tried == calls[c].tried IN
        /\ Len(tried) <= Len(StrategyOrder)
        /\ \A i \in 1..Len(tried) :
              /\ tried[i].strategy = StrategyOrder[i]
              /\ tried[i].ok => i = Len(tried)
              /\ (~tried[i].ok /\ i < Len(StrategyOrder)) => i < Len(tried)

\* C29: a call whose decoded audio had no samples, although a strategy
\* decoded it, gets no path from preprocess_audio: no model is invoked for
\* it, it returns the payload of a failed preprocessing, and the step of
\* the call puts no processed file on disk.
C29_EmptyAudioIsRefused ==
    /\ [](\A c \in DOMAIN calls :
            calls[c].empty =>
               /\ calls[c].tried # << >>
               /\ calls[c].tried[Len(calls[c].tried)].ok
               /\ Returned(c)
               /\ calls[c].invoked = << >>
               /\ calls[c].result = Some(ErrorResult(PreprocessError(calls[c].ext))))
    /\ [][(Len(calls') > Len(calls) /\ calls'[Len(calls')].empty) =>
            (ProcessedWav \in disk' => ProcessedWav \in disk)]_vars

\* C29 witness: ffmpeg, the third strategy, decoded a file to audio without
\* samples, and the call has returned.
C29_Witness ==
    \E c \in DOMAIN calls :
        /\ calls[c].empty /\ Returned(c)
        /\ Len(calls[c].tried) = 3 /\ calls[c].tried[3].ok
        /\ IsSet(calls[c].result[1].error)
        /\ ProcessedWav \notin disk

\* The invocations recorded for call c in a sequence of calls.
InvokedIn(cs, c) == IF c \in DOMAIN cs THEN cs[c].invoked ELSE << >>

\* C30: the invocation of a real model does not occupy the event loop: the
\* step that records it as finished resumes a call that was suspended
\* while the model ran in its executor thread, so that other coroutines
\* (submit, start, get_status, other calls) could run in between.
C30_InvocationOffTheEventLoop ==
    [][\A c \in DOMAIN calls' :
         (/\ InvokedIn(calls', c) # InvokedIn(calls, c)
          /\ \E i \in 1..Len(calls'[c].invoked) : calls'[c].invoked[i].tier # "mock") =>
            /\ c \in DOMAIN calls
            /\ calls[c].pc = "executing"]_vars

\* The calls of svc whose transcribe_sync is running in an executor thread
\* (canary_transcription.py:183-184, whisper_transcription.py:95-96).
InFlight(svc) ==
    {c \in DOMAIN calls : calls[c].svc = svc /\ calls[c].pc = "executing"}

\* C31: at no time are two invocations of the same service's model, which
\* is one object shared by all calls, running at once.
C31_OneInvocationPerBackend ==
    \A svc \in Services : Cardinality(InFlight(svc)) <= 1

\* C33: a call that has returned, with a transcription or with a failure
\* payload, has run exactly one cleanup pass if its service's configuration
\* sets clear_cache_after_inference and none if it does not; a call that
\* has not returned has run none.
C33_CleanupIffConfigured ==
    \A c \in DOMAIN calls :
        calls[c].cleanups =
            IF Returned(c) /\ config(calls[c].svc).clear_cache_after_inference
            THEN 1 ELSE 0

\* C33 witness: a call of a service with the flag set returned a failure
\* after one cleanup pass, a call of a service with the flag unset returned
\* a transcription after none.
C33_Witness ==
    \E a, b \in DOMAIN calls :
        /\ Returned(a) /\ config(calls[a].svc).clear_cache_after_inference
        /\ IsSet(calls[a].result[1].error) /\ calls[a].cleanups = 1
        /\ Returned(b) /\ ~config(calls[b].svc).clear_cache_after_inference
        /\ ~IsSet(calls[b].result[1].error) /\ calls[b].cleanups = 0

----------------------------------------------------------------------------
\* Properties of the device allocator.

\* C20: get_device_for_job answers -1 (no device) when the inventory is
\* empty, the one enumerated device when there is exactly one, and otherwise
\* hash(job id) modulo the number of devices; every call for the same job
\* identifier gets the same answer, and on an inventory of one device all
\* job identifiers get the same answer.
C20_PickDevice ==
    /\ \A job_id \in DOMAIN picked :
         \A i \in 1..Len(picked[job_id]) :
            /\ picked[job_id][i] =
                  IF gpu_devices = << >> THEN -1
                  ELSE IF Len(gpu_devices) = 1 THEN gpu_devices[1]
                  ELSE job_hash(job_id) % Len(gpu_devices)
            /\ picked[job_id][i] = picked[job_id][1]
    /\ Len(gpu_devices) = 1 =>
          \A a, b \in DOMAIN picked : picked[a][1] = picked[b][1]

\* C21: while an enumerated device is marked unavailable, no call of
\* get_device_for_job, for whatever job identifier, answers that device.
C21_UnavailableDeviceNotPicked ==
    [][\A job_id \in DeviceJobIds :
         (job_id \in DOMAIN picked' /\ picked' # picked
            /\ picked'[job_id] # (IF job_id \in DOMAIN picked THEN picked[job_id] ELSE << >>)) =>
            \A i \in DOMAIN gpu_devices :
               ~is_available[i] =>
                  picked'[job_id][Len(picked'[job_id])] # gpu_devices[i]]_vars

\* C36: every answer of get_device_for_job is -1 (no device) or the
\* identifier of a device of the enumerated inventory, also when discovery
\* skipped an ordinal and the identifiers are not 0..n-1.
C36_PickedDeviceIsEnumerated ==
    \A job_id \in DOMAIN picked :
        \A n \in 1..Len(picked[job_id]) :
            \/ picked[job_id][n] = -1
            \/ \E i \in DOMAIN gpu_devices : gpu_devices[i] = picked[job_id][n]

----------------------------------------------------------------------------
\* Properties of the worker pool.

\* C35: for every host (at least one CPU, any available memory, any number
\* of devices, none included), once main.py:19-20 has run, the worker-pool
\* size it computed is at least 1 and the pool exists with that size.
C35_WorkerPoolAtLeastOne ==
    IsSet(executor) =>
        /\ executor[1].max_workers >= 1
        /\ ~executor[1].raised

====
